---- MODULE Spec2Model ----
(***************************************************************************)
(* ScreenShareMainHook (src/screensharing/main.js): the main-process side  *)
(* of screen sharing.  One hook owns at most one reference to a tracker    *)
(* BrowserWindow, listens on the screen-share events channel, answers the  *)
(* get-sources request, and removes both handlers when the main window is  *)
(* closed.  The host (Electron) delivers the window callbacks              *)
(* 'ready-to-show' and 'closed' asynchronously; the model lets the host    *)
(* choose when.                                                            *)
(***************************************************************************)
EXTENDS Integers, Sequences, FiniteSets, TLC

\* ------------------------------------------------------------------ bounds
MaxWindows == 2
MaxPayload == 1
MaxOpts    == 1
MaxSources == 2
MaxErrors  == 1
MaxOrigin  == 1
MaxSlack   == 1
MaxHooks   == 2
MaxBundleIds == 1

\* --------------------------------------------------------------- constants
\* `undefined`, the value of this._screenShareTracker when no tracker is held.
Undefined == 0

\* The members of SCREEN_SHARE_EVENTS the switch dispatches on.
SCREEN_SHARE_EVENTS ==
    {"OPEN_TRACKER", "CLOSE_TRACKER", "HIDE_TRACKER", "STOP_SCREEN_SHARE"}

\* Names the switch has no case for: some other string, and a data object
\* without a name (data.name evaluates to undefined).
OtherNames == {"SOME_OTHER_EVENT", "undefined"}

WinIds   == 1..MaxWindows
Payloads == 0..MaxPayload
Opts     == 0..MaxOpts
SourceIds == 1..MaxSources

\* ------------------------------------------------------------------ values
\* The `data` member of a channel message: an object { name, ...fields }, or
\* missing (defined = FALSE).  `printable` tells whether the object converts
\* to a string: it does not when its own toString is not a function (as in
\* { name, toString: 1 }), and `${data}` then throws a TypeError.  Such an
\* object has a field besides its name, so its payload is not the empty one.
DataObjects ==
    {d \in [defined : {TRUE}, name : SCREEN_SHARE_EVENTS \cup OtherNames,
            payload : Payloads, printable : BOOLEAN] :
        ~d.printable => d.payload # 0}

NoData == [defined |-> FALSE, name |-> "undefined", payload |-> 0, printable |-> TRUE]

\* A channel message { data, ...other members }; `extra` tells whether the
\* message carries members other than data.
Envelopes == [data : DataObjects \cup {NoData}, extra : BOOLEAN]

NoEnvelope == [data |-> NoData, extra |-> FALSE]

\* State of one BrowserWindow as the host keeps it.
NoWindow ==
    [status |-> "none", vis |-> "hidden", closeRequested |-> FALSE,
     readyPending |-> FALSE, focused |-> FALSE, contentProtected |-> FALSE]

DestroyedWindow ==
    [status |-> "destroyed", vis |-> "hidden", closeRequested |-> FALSE,
     readyPending |-> FALSE, focused |-> FALSE, contentProtected |-> FALSE]

\* Results of desktopCapturer.getSources: a sequence of source descriptors, each
\* source listed once, or a rejection.
RECURSIVE SeqsUpTo(_, _)
SeqsUpTo(S, n) ==
    IF n = 0 THEN {<<>>}
    ELSE LET shorter == SeqsUpTo(S, n - 1)
             longest == {t \in shorter : Len(t) = n - 1}
         IN  shorter \cup
             UNION {{Append(s, x) : x \in S \ {s[i] : i \in 1..Len(s)}} : s \in longest}

HostResults ==
    {[ok |-> TRUE, sources |-> s, error |-> 0] : s \in SeqsUpTo(SourceIds, MaxSources)}
    \cup {[ok |-> FALSE, sources |-> <<>>, error |-> c] : c \in 1..MaxErrors}

NoReply == [ok |-> TRUE, sources |-> <<>>, error |-> 0]

\* TRACKER_SIZE, and the margin kept under the tracker.
TrackerWidth  == 530
TrackerHeight == 40
TrackerMargin == 5

\* The work area of the primary display, display.workArea: its origin on the
\* desktop and its size.  The origin is off zero along one axis when a task
\* bar or menu bar sits at the left or the top of the screen; the sizes leave
\* room for the tracker and its margin.  The sizes vary for the work areas at
\* the origin; the work areas off the origin are the smallest one.
Displays ==
    {[x |-> 0, y |-> 0,
      width |-> TrackerWidth + k, height |-> TrackerHeight + TrackerMargin + k] :
        k \in 0..MaxSlack}
    \cup {[x |-> o[1], y |-> o[2],
           width |-> TrackerWidth, height |-> TrackerHeight + TrackerMargin] :
        o \in {<<n, 0>> : n \in 1..MaxOrigin} \cup {<<0, n>> : n \in 1..MaxOrigin}}

NoDisplay == [x |-> 0, y |-> 0, width |-> 0, height |-> 0]

\* The x and y options of a new BrowserWindow; x2 is twice x, which is half an
\* odd number when the widths differ by one.
NoPosition == [x2 |-> 0, y |-> 0]

\* One call the hook makes on the host: the function, the window it is called
\* on (0: none), the message, options or position passed and what the host
\* returned.
Call(fn, w) ==
    [fn |-> fn, win |-> w, msg |-> NoEnvelope, arg |-> 0, pos |-> NoPosition,
     ret |-> NoReply, area |-> NoDisplay]

\* The build of Windows 10 Version 2004, the first release with
\* WDA_EXCLUDEFROMCAPTURE.
Win10Version2004Build == 19041

\* The machines the hook runs on: Windows before and from that build, and
\* macOS (whose release is no Windows build).  The code reads the platform in
\* two places only, as "not win32" and as "darwin"; any further platform
\* behaves as macOS in the first and as Windows in the second.
Hosts ==
    {[platform |-> "win32", release |-> b] :
        b \in {Win10Version2004Build - 1, Win10Version2004Build}}
    \cup {[platform |-> "darwin", release |-> 0]}

\* The hooks created in one main process, one per main window.
HookIds == 1..MaxHooks

\* osxBundleId: an application bundle id, or none given (NoBundleId).
BundleIds == 1..MaxBundleIds

NoBundleId == 0

\* The values of systemPreferences.getMediaAccessStatus('screen').
MediaAccessStatuses == {"not-determined", "granted", "denied", "restricted", "unknown"}

\* A hook: how far it has come (not constructed, constructed, constructor
\* threw, cleanup called with the main window open, main window closed), how many times
\* its _onScreenSharingEvent is on the events channel, and whether cleanup is
\* registered on its main window's 'closed'.
NoHook == [status |-> "none", listeners |-> 0, closedHook |-> FALSE]

\* ------------------------------------------------------------------- state
VARIABLES
    tracker,      \* this._screenShareTracker: Undefined or a window id
    windows,      \* the tracker BrowserWindows the hook has created, by id
    listeners,    \* times _onScreenSharingEvent is on the events channel
    handler,      \* whether the get-sources handler is registered
    mainClosed,   \* whether the main window has emitted 'closed'
    host,         \* the machine: os.platform() and os.release()
    hooks,        \* the hooks created on the one ipcMain, by id (SpecHooks)
    ipcHandler,   \* the hook whose get-sources handler ipcMain holds, or 0 (SpecHooks)
    op,           \* the operation that ran last, with its input
    calls,        \* the host calls that operation made, in order
    err,          \* the error that operation raised, or "none"
    reply         \* what that operation returned to its caller (get-sources)

vars == <<tracker, windows, listeners, handler, mainClosed, host, hooks, ipcHandler, op, calls, err, reply>>

Op(kind, e, w, o) ==
    [kind |-> kind, env |-> e, win |-> w, opts |-> o, again |-> FALSE, status |-> "none"]

Live(w) == windows[w].status = "live"

LiveWindows == {w \in WinIds : Live(w)}

FreeIds == {w \in WinIds : windows[w].status = "none"}

\* The id the next window created gets.
NextWinId == CHOOSE w \in FreeIds : \A v \in FreeIds : w <= v

\* windowsEnableScreenProtection(release): whether the Windows release has
\* WDA_EXCLUDEFROMCAPTURE, that is, is Windows 10 Version 2004 or later.
WindowsEnableScreenProtection(release) == release >= Win10Version2004Build

\* The condition of the content protection with && for ||.
ScreenProtectionOnWindowsOnly ==
    host.platform = "win32" /\ WindowsEnableScreenProtection(host.release)

\* os.platform() !== 'win32' || windowsEnableScreenProtection(os.release())
ScreenProtection ==
    host.platform # "win32" \/ WindowsEnableScreenProtection(host.release)

\* ------------------------------------------------------- host: BrowserWindow
\* new BrowserWindow({ ..., show }): the window exists, is visible and focused
\* only when created with show: true, and has yet to emit 'ready-to-show'.
BrowserWindow(show) ==
    [status |-> "live", vis |-> IF show THEN "visible" ELSE "hidden",
     closeRequested |-> FALSE, readyPending |-> TRUE, focused |-> show,
     contentProtected |-> FALSE]

\* win.setContentProtection(true)
WinSetContentProtection(win) == [win EXCEPT !.contentProtected = TRUE]

\* win.close(): the host destroys the window and emits 'closed' either before
\* close() returns (immediate) or in a later turn of the event loop.
WinClose(win, immediate) ==
    IF immediate THEN DestroyedWindow ELSE [win EXCEPT !.closeRequested = TRUE]

\* win.minimize()
WinMinimize(win) == [win EXCEPT !.vis = "minimized"]

\* win.showInactive(): shows the window, the focus stays where it is.
WinShowInactive(win) == [win EXCEPT !.vis = "visible"]

\* --------------------------------------------------------------- the hook
\* The tracker's 'closed' listener: () => { this._screenShareTracker = undefined }
\* It gives the new value of the reference when window w has emitted 'closed'.
OnTrackerClosed(w) == Undefined

\* x: (display.workArea.width - TRACKER_SIZE.width) / 2,
\* y: display.workArea.height - TRACKER_SIZE.height - 5
TrackerPosition(workArea) ==
    [x2 |-> workArea.width - TrackerWidth,
     y  |-> workArea.height - TrackerHeight - TrackerMargin]

\* _createScreenShareTracker() without its early return: a window is created
\* whether or not the reference is already set.
CreateScreenShareTrackerNoReturn ==
    IF FreeIds = {}
    THEN /\ UNCHANGED <<tracker, windows>>
         /\ calls' = <<>>
         /\ err' = "none"
    ELSE LET w == NextWinId
             created == BrowserWindow(FALSE)
         IN  /\ windows' = [windows EXCEPT ![w] =
                                IF ScreenProtection
                                THEN WinSetContentProtection(created) ELSE created]
             /\ tracker' = w
             /\ \E display \in Displays :
                   calls' = << [Call("screen.getPrimaryDisplay", 0)
                                   EXCEPT !.area = display],
                               [Call("new BrowserWindow", w)
                                   EXCEPT !.pos = TrackerPosition(display)] >>
                          \o (IF ScreenProtection
                              THEN << Call("setContentProtection", w) >> ELSE <<>>)
                          \o << Call("on closed", w), Call("once ready-to-show", w),
                                Call("loadURL", w) >>
             /\ err' = "none"

\* _createScreenShareTracker()
CreateScreenShareTracker ==
    IF tracker # Undefined
    THEN /\ UNCHANGED <<tracker, windows>>
         /\ calls' = <<>>
         /\ err' = "none"
    ELSE LET w == NextWinId
             created == BrowserWindow(FALSE)
         IN  /\ windows' = [windows EXCEPT ![w] =
                                IF ScreenProtection
                                THEN WinSetContentProtection(created) ELSE created]
             /\ tracker' = w
             /\ \E display \in Displays :
                   calls' = << [Call("screen.getPrimaryDisplay", 0)
                                   EXCEPT !.area = display],
                               [Call("new BrowserWindow", w)
                                   EXCEPT !.pos = TrackerPosition(display)] >>
                          \o (IF ScreenProtection
                              THEN << Call("setContentProtection", w) >> ELSE <<>>)
                          \o << Call("on closed", w), Call("once ready-to-show", w),
                                Call("loadURL", w) >>
             /\ err' = "none"

\* case CLOSE_TRACKER without the assignment of undefined: the reference is
\* cleared only by the 'closed' listener.
CloseTrackerKeepsReference(immediate) ==
    IF tracker # Undefined
    THEN /\ windows' = [windows EXCEPT ![tracker] = WinClose(@, immediate)]
         /\ tracker' = IF immediate THEN OnTrackerClosed(tracker) ELSE tracker
         /\ calls' = << Call("close", tracker) >>
         /\ err' = "none"
    ELSE /\ UNCHANGED <<tracker, windows>>
         /\ calls' = <<>>
         /\ err' = "none"

\* case CLOSE_TRACKER
CloseTracker(immediate) ==
    IF tracker # Undefined
    THEN /\ windows' = [windows EXCEPT ![tracker] = WinClose(@, immediate)]
         /\ tracker' = Undefined
         /\ calls' = << Call("close", tracker) >>
         /\ err' = "none"
    ELSE /\ UNCHANGED <<tracker, windows>>
         /\ calls' = <<>>
         /\ err' = "none"

\* case HIDE_TRACKER that also drops the reference, as the CLOSE_TRACKER case
\* does.
HideTrackerDropsReference ==
    IF tracker # Undefined
    THEN /\ windows' = [windows EXCEPT ![tracker] = WinMinimize(@)]
         /\ tracker' = Undefined
         /\ calls' = << Call("minimize", tracker) >>
         /\ err' = "none"
    ELSE /\ UNCHANGED <<tracker, windows>>
         /\ calls' = <<>>
         /\ err' = "none"

\* case HIDE_TRACKER
HideTracker ==
    IF tracker # Undefined
    THEN /\ windows' = [windows EXCEPT ![tracker] = WinMinimize(@)]
         /\ UNCHANGED tracker
         /\ calls' = << Call("minimize", tracker) >>
         /\ err' = "none"
    ELSE /\ UNCHANGED <<tracker, windows>>
         /\ calls' = <<>>
         /\ err' = "none"

\* A message rebuilt from the event name alone: the other fields of data are
\* lost.
ForwardedNameOnly(data) == [data |-> [data EXCEPT !.payload = 0], extra |-> FALSE]

\* The message { data } built for the main window: the data of the message
\* received and no other member.
Forwarded(data) == [data |-> data, extra |-> FALSE]

\* case STOP_SCREEN_SHARE
StopScreenShare(data) ==
    /\ UNCHANGED <<tracker, windows>>
    /\ IF mainClosed
       THEN calls' = <<>> /\ err' = "TypeError"
       ELSE /\ calls' = << [Call("webContents.send", 0) EXCEPT !.msg = Forwarded(data)] >>
            /\ err' = "none"

\* default: the template literal converts data to a string before
\* console.warn is called, and throws when data has no string form.
Unhandled(data) ==
    /\ UNCHANGED <<tracker, windows>>
    /\ IF data.printable
       THEN calls' = << Call("console.warn", 0) >> /\ err' = "none"
       ELSE calls' = <<>> /\ err' = "TypeError"

\* _onScreenSharingEvent(event, { data }), as the channel's listener.  A message
\* without data makes data.name throw before the switch is entered.
OnScreenSharingEvent(e) ==
    /\ listeners > 0
    /\ (e.data.defined /\ e.data.name = "OPEN_TRACKER" /\ tracker = Undefined)
           => FreeIds # {}
    /\ op' = Op("event", e, 0, 0)
    /\ IF ~e.data.defined
       THEN /\ UNCHANGED <<tracker, windows>>
            /\ calls' = <<>>
            /\ err' = "TypeError"
       ELSE CASE e.data.name = "OPEN_TRACKER"      -> CreateScreenShareTracker
              [] e.data.name = "CLOSE_TRACKER"     -> \E immediate \in BOOLEAN :
                                                         CloseTracker(immediate)
              [] e.data.name = "HIDE_TRACKER"      -> HideTracker
              [] e.data.name = "STOP_SCREEN_SHARE" -> StopScreenShare(e.data)
              [] OTHER                             -> Unhandled(e.data)
    /\ reply' = NoReply
    /\ UNCHANGED <<listeners, handler, mainClosed, host, hooks, ipcHandler>>

\* The 'ready-to-show' listener of window w (registered with once): it shows
\* whatever window the reference holds at that time, if it is not destroyed.
OnReadyToShow(w) ==
    LET fired == [windows EXCEPT ![w].readyPending = FALSE]
    IN  IF tracker # Undefined /\ fired[tracker].status # "destroyed"
        THEN /\ windows' = [fired EXCEPT ![tracker] = WinShowInactive(@)]
             /\ calls' = << Call("isDestroyed", tracker), Call("showInactive", tracker) >>
        ELSE /\ windows' = fired
             /\ calls' = <<>>

\* The host emits 'ready-to-show' on a tracker window that is not destroyed.
TrackerReadyToShow(w) ==
    /\ Live(w)
    /\ windows[w].readyPending
    /\ op' = Op("ready-to-show", NoEnvelope, w, 0)
    /\ OnReadyToShow(w)
    /\ err' = "none"
    /\ reply' = NoReply
    /\ UNCHANGED <<tracker, listeners, handler, mainClosed, host, hooks, ipcHandler>>

\* The host destroys a window whose close was requested earlier and emits its
\* 'closed'.
TrackerClosed(w) ==
    /\ Live(w)
    /\ windows[w].closeRequested
    /\ op' = Op("closed", NoEnvelope, w, 0)
    /\ windows' = [windows EXCEPT ![w] = DestroyedWindow]
    /\ tracker' = OnTrackerClosed(w)
    /\ calls' = <<>>
    /\ err' = "none"
    /\ reply' = NoReply
    /\ UNCHANGED <<listeners, handler, mainClosed, host, hooks, ipcHandler>>

\* A tracker window is closed by another path than CLOSE_TRACKER (the user, the
\* tracker page, the operating system): it is destroyed and emits 'closed'.
TrackerClosedExternally(w) ==
    /\ Live(w)
    /\ ~windows[w].closeRequested
    /\ op' = Op("external-close", NoEnvelope, w, 0)
    /\ windows' = [windows EXCEPT ![w] = DestroyedWindow]
    /\ tracker' = OnTrackerClosed(w)
    /\ calls' = <<>>
    /\ err' = "none"
    /\ reply' = NoReply
    /\ UNCHANGED <<listeners, handler, mainClosed, host, hooks, ipcHandler>>

\* ipcMain.removeListener(channel, fn): removes one registration of fn, if any.
RemoveListener(n) == IF n > 0 THEN n - 1 ELSE 0

\* cleanup() that removes the channel listener and leaves the get-sources
\* handler registered.
CleanupListenerOnly ==
    /\ listeners' = RemoveListener(listeners)
    /\ handler' = handler
    /\ calls' = << Call("ipcMain.removeListener", 0) >>
    /\ err' = "none"
    /\ UNCHANGED <<tracker, windows>>

\* cleanup() that removes the get-sources handler and leaves the channel
\* listener registered.
CleanupHandlerOnly ==
    /\ listeners' = listeners
    /\ handler' = FALSE
    /\ calls' = << Call("ipcMain.removeHandler", 0) >>
    /\ err' = "none"
    /\ UNCHANGED <<tracker, windows>>

\* cleanup() that also closes the tracker it holds, as the CLOSE_TRACKER case
\* does.
CleanupClosesTracker ==
    /\ listeners' = RemoveListener(listeners)
    /\ handler' = FALSE
    /\ err' = "none"
    /\ IF tracker # Undefined
       THEN /\ windows' = [windows EXCEPT ![tracker] = WinClose(@, FALSE)]
            /\ tracker' = Undefined
            /\ calls' = << Call("ipcMain.removeListener", 0),
                           Call("ipcMain.removeHandler", 0), Call("close", tracker) >>
       ELSE /\ UNCHANGED <<tracker, windows>>
            /\ calls' = << Call("ipcMain.removeListener", 0),
                           Call("ipcMain.removeHandler", 0) >>

\* cleanup()
Cleanup ==
    /\ listeners' = RemoveListener(listeners)
    /\ handler' = FALSE
    /\ calls' = << Call("ipcMain.removeListener", 0), Call("ipcMain.removeHandler", 0) >>
    /\ err' = "none"
    /\ UNCHANGED <<tracker, windows>>

\* cleanup() called by the application, whether or not the main window has
\* closed.
CleanupCalled ==
    /\ op' = [Op("cleanup", NoEnvelope, 0, 0) EXCEPT !.again = mainClosed]
    /\ Cleanup
    /\ reply' = NoReply
    /\ UNCHANGED <<mainClosed, host, hooks, ipcHandler>>

\* The main window emits 'closed': the listener registered in the constructor
\* runs cleanup.
MainWindowClosed ==
    /\ op' = [Op("main-closed", NoEnvelope, 0, 0) EXCEPT !.again = mainClosed]
    /\ mainClosed' = TRUE
    /\ Cleanup
    /\ reply' = NoReply
    /\ UNCHANGED <<host, hooks, ipcHandler>>

\* A handler that turns a rejection of the host into an empty list of sources.
GetSourcesInvokeSwallowsFailure(o, r) ==
    /\ calls' = << [Call("desktopCapturer.getSources", 0) EXCEPT !.arg = o, !.ret = r] >>
    /\ reply' = IF r.ok THEN r ELSE NoReply
    /\ err' = "none"

\* _onGetSourcesInvoke(_event, opts), with r the outcome of the host's
\* desktopCapturer.getSources(opts).
GetSourcesInvoke(o, r) ==
    /\ calls' = << [Call("desktopCapturer.getSources", 0) EXCEPT !.arg = o, !.ret = r] >>
    /\ reply' = r
    /\ err' = "none"

\* A get-sources request reaches the handler registered in the constructor.
OnGetSourcesInvoke(o) ==
    /\ handler
    /\ op' = Op("getSources", NoEnvelope, 0, o)
    /\ \E r \in HostResults : GetSourcesInvoke(o, r)
    /\ UNCHANGED <<tracker, windows, listeners, handler, mainClosed, host, hooks, ipcHandler>>

\* ----------------------------------------------------------- specification
\* The state the constructor leaves: no tracker, both handlers registered, the
\* main window open.
Init ==
    /\ tracker = Undefined
    /\ windows = [w \in WinIds |-> NoWindow]
    /\ listeners = 1
    /\ handler = TRUE
    /\ mainClosed = FALSE
    /\ host \in Hosts
    /\ hooks = [c \in HookIds |-> NoHook]
    /\ ipcHandler = 0
    /\ op = Op("constructor", NoEnvelope, 0, 0)
    /\ calls = <<>>
    /\ err = "none"
    /\ reply = NoReply

Next ==
    \/ \E e \in Envelopes : OnScreenSharingEvent(e)
    \/ \E w \in WinIds : TrackerReadyToShow(w)
    \/ \E w \in WinIds : TrackerClosed(w)
    \/ \E w \in WinIds : TrackerClosedExternally(w)
    \/ MainWindowClosed
    \/ CleanupCalled
    \/ \E o \in Opts : OnGetSourcesInvoke(o)

Spec == Init /\ [][Next]_vars

TypeOK ==
    /\ tracker \in WinIds \cup {Undefined}
    /\ \A w \in WinIds :
          /\ windows[w].status \in {"none", "live", "destroyed"}
          /\ windows[w].vis \in {"hidden", "visible", "minimized"}
          /\ windows[w].closeRequested \in BOOLEAN
          /\ windows[w].readyPending \in BOOLEAN
          /\ windows[w].focused \in BOOLEAN
          /\ windows[w].contentProtected \in BOOLEAN
    /\ listeners \in 0..1
    /\ handler \in BOOLEAN
    /\ mainClosed \in BOOLEAN
    /\ host \in Hosts
    /\ \A c \in HookIds :
          /\ hooks[c].status \in {"none", "constructed", "threw", "cleaned", "closed"}
          /\ hooks[c].listeners \in 0..1
          /\ hooks[c].closedHook \in BOOLEAN
    /\ ipcHandler \in HookIds \cup {0}
    /\ err \in {"none", "TypeError", "Error"}
    /\ reply \in HostResults


\* ------------------------------------------------- several hooks, one ipcMain
\* isMac()
IsMac == host.platform = "darwin"

\* _verifyScreenCapturePermissions(bundleId): the calls it makes when the
\* host reports `status` for the screen.
VerifyScreenCapturePermissions(bundleId, status) ==
    << Call("systemPreferences.getMediaAccessStatus", 0) >>
    \o (IF status # "granted"
        THEN << [Call("exec tccutil reset ScreenCapture", 0) EXCEPT !.arg = bundleId] >>
        ELSE <<>>)

\* constructor(jitsiMeetWindow, identity, osxBundleId) of hook c.  ipcMain.handle
\* throws when the channel already has a handler; the constructor then ends
\* with the channel listener registered and no 'closed' listener on the window.
Constructor(c, bundleId, status) ==
    LET threw == ipcHandler # 0
    IN  /\ hooks[c].status = "none"
        /\ op' = [Op("new ScreenShareMainHook", NoEnvelope, c, bundleId)
                     EXCEPT !.status = status]
        /\ hooks' = [hooks EXCEPT ![c] =
                        [status |-> IF threw THEN "threw" ELSE "constructed",
                         listeners |-> 1, closedHook |-> ~threw]]
        /\ ipcHandler' = IF threw THEN ipcHandler ELSE c
        /\ calls' = (IF bundleId # NoBundleId /\ IsMac
                     THEN VerifyScreenCapturePermissions(bundleId, status) ELSE <<>>)
                    \o << Call("ipcMain.on", 0), Call("ipcMain.handle", 0) >>
                    \o (IF threw THEN <<>> ELSE << Call("jitsiMeetWindow.on closed", 0) >>)
        /\ err' = IF threw THEN "Error" ELSE "none"
        /\ UNCHANGED <<tracker, windows, listeners, handler, mainClosed, host, reply>>

\* cleanup() of hook c on the shared ipcMain: removeListener takes c's own
\* listener off the channel, removeHandler takes the channel's handler off,
\* whichever hook registered it.  `status` is the hook's status afterwards.
HookCleanup(c, status) ==
    /\ hooks' = [hooks EXCEPT ![c].listeners = RemoveListener(@), ![c].status = status]
    /\ ipcHandler' = 0
    /\ calls' = << Call("ipcMain.removeListener", 0), Call("ipcMain.removeHandler", 0) >>
    /\ err' = "none"

\* The main window of hook c emits 'closed': cleanup runs if the constructor
\* got as far as registering it.
HookMainWindowClosed(c) ==
    /\ hooks[c].status \in {"constructed", "cleaned"}
    /\ hooks[c].closedHook
    /\ op' = Op("main-closed", NoEnvelope, c, 0)
    /\ HookCleanup(c, "closed")
    /\ UNCHANGED <<tracker, windows, listeners, handler, mainClosed, host, reply>>

\* cleanup() of hook c called by the application, before its main window
\* closes (the hook is then "cleaned") or after it.
HookCleanupCalled(c) ==
    /\ hooks[c].status \in {"constructed", "cleaned", "closed"}
    /\ op' = [Op("cleanup", NoEnvelope, c, 0) EXCEPT !.again = (hooks[c].status = "closed")]
    /\ HookCleanup(c, IF hooks[c].status = "closed" THEN "closed" ELSE "cleaned")
    /\ UNCHANGED <<tracker, windows, listeners, handler, mainClosed, host, reply>>

\* No hook exists yet.
InitHooks ==
    /\ tracker = Undefined
    /\ windows = [w \in WinIds |-> NoWindow]
    /\ listeners = 0
    /\ handler = FALSE
    /\ mainClosed = FALSE
    /\ host \in Hosts
    /\ hooks = [c \in HookIds |-> NoHook]
    /\ ipcHandler = 0
    /\ op = Op("none", NoEnvelope, 0, 0)
    /\ calls = <<>>
    /\ err = "none"
    /\ reply = NoReply

NextHooks ==
    \/ \E c \in HookIds, b \in BundleIds \cup {NoBundleId}, s \in MediaAccessStatuses :
          Constructor(c, b, s)
    \/ \E c \in HookIds : HookMainWindowClosed(c)
    \/ \E c \in HookIds : HookCleanupCalled(c)

SpecHooks == InitHooks /\ [][NextHooks]_vars

\* ------------------------------------------------------------------ claims
\* o is the handling of a channel message with a data object named `name`.
IsEvent(o, name) ==
    o.kind = "event" /\ o.env.data.defined /\ o.env.data.name = name

\* The positions in the call sequence cs of the calls to fn.
CallsTo(cs, fn) == {i \in 1..Len(cs) : cs[i].fn = fn}

\* C1: in every reachable state at most one tracker window created by the hook
\* is live (created and not yet destroyed).
C1_AtMostOneLiveTracker == Cardinality(LiveWindows) <= 1

\* C2: OPEN_TRACKER handled while the reference is absent creates exactly one
\* window and sets the reference to it; handled while the reference is present
\* it creates no window and leaves the reference and every window unchanged.
C2_OpenTracker ==
    [][ IsEvent(op', "OPEN_TRACKER") =>
          IF tracker = Undefined
          THEN /\ tracker' \in WinIds
               /\ windows[tracker'].status = "none"
               /\ windows'[tracker'].status = "live"
               /\ \A v \in WinIds \ {tracker'} : windows'[v] = windows[v]
               /\ Cardinality(CallsTo(calls', "new BrowserWindow")) = 1
               /\ \A i \in CallsTo(calls', "new BrowserWindow") : calls'[i].win = tracker'
          ELSE /\ tracker' = tracker
               /\ windows' = windows
               /\ CallsTo(calls', "new BrowserWindow") = {}
      ]_vars

\* C2 witness: a second window has been created after the first was destroyed,
\* and an OPEN_TRACKER has since been handled while it was referenced.
C2_Witness ==
    /\ IsEvent(op, "OPEN_TRACKER")
    /\ calls = <<>>
    /\ tracker = 2
    /\ Live(2)
    /\ windows[1].status = "destroyed"

\* C3: CLOSE_TRACKER handled while the reference is present calls close on that
\* window exactly once and clears the reference; handled while the reference
\* is absent it calls nothing, raises nothing and changes no state.
C3_CloseTracker ==
    [][ IsEvent(op', "CLOSE_TRACKER") =>
          IF tracker # Undefined
          THEN /\ calls' = << Call("close", tracker) >>
               /\ tracker' = Undefined
               /\ \/ windows'[tracker].closeRequested
                  \/ windows'[tracker].status = "destroyed"
               /\ \A v \in WinIds \ {tracker} : windows'[v] = windows[v]
               /\ err' = "none"
          ELSE /\ calls' = <<>>
               /\ err' = "none"
               /\ UNCHANGED <<tracker, windows, listeners, handler, mainClosed>>
      ]_vars

\* C3 witness: a CLOSE_TRACKER was handled with the reference absent while the
\* window closed by an earlier CLOSE_TRACKER has not yet emitted 'closed'.
C3_Witness ==
    /\ IsEvent(op, "CLOSE_TRACKER")
    /\ calls = <<>>
    /\ tracker = Undefined
    /\ \E w \in WinIds : Live(w) /\ windows[w].closeRequested

\* C4: HIDE_TRACKER handled while the reference is present minimizes that
\* window, which stays live with no close requested, and keeps the reference;
\* handled while the reference is absent it changes nothing.
C4_HideTracker ==
    [][ IsEvent(op', "HIDE_TRACKER") =>
          IF tracker # Undefined
          THEN /\ calls' = << Call("minimize", tracker) >>
               /\ tracker' = tracker
               /\ windows'[tracker].vis = "minimized"
               /\ windows'[tracker].status = "live"
               /\ windows'[tracker].closeRequested = windows[tracker].closeRequested
               /\ \A v \in WinIds \ {tracker} : windows'[v] = windows[v]
               /\ err' = "none"
          ELSE /\ calls' = <<>>
               /\ err' = "none"
               /\ UNCHANGED <<tracker, windows, listeners, handler, mainClosed>>
      ]_vars

\* C4 witness: a HIDE_TRACKER has minimized a tracker that had been shown.
C4_Witness ==
    /\ IsEvent(op, "HIDE_TRACKER")
    /\ tracker # Undefined
    /\ windows[tracker].vis = "minimized"
    /\ ~windows[tracker].readyPending
    /\ calls = << Call("minimize", tracker) >>

\* C5: STOP_SCREEN_SHARE sends exactly one message to the main window, whose
\* data is the data of the message received, and leaves the reference and the
\* tracker windows unchanged.
C5_StopScreenShare ==
    [][ IsEvent(op', "STOP_SCREEN_SHARE") =>
          /\ Len(calls') = 1
          /\ calls'[1].fn = "webContents.send"
          /\ calls'[1].msg.data = op'.env.data
          /\ err' = "none"
          /\ UNCHANGED <<tracker, windows>>
      ]_vars

\* C5 witness: a STOP_SCREEN_SHARE message with a payload and a further member
\* was forwarded while a tracker was shown.
C5_Witness ==
    /\ IsEvent(op, "STOP_SCREEN_SHARE")
    /\ op.env.data.payload = 1
    /\ op.env.extra
    /\ Len(calls) = 1
    /\ calls[1].fn = "webContents.send"
    /\ tracker # Undefined
    /\ windows[tracker].vis = "visible"

\* C6: a message whose data names none of the four events makes the handler log
\* one warning, raise nothing, send nothing to the main window and leave the
\* reference, the tracker windows and the registrations unchanged.
C6_UnhandledEvent ==
    [][ (/\ op'.kind = "event"
         /\ op'.env.data.defined
         /\ op'.env.data.name \notin SCREEN_SHARE_EVENTS) =>
          /\ calls' = << Call("console.warn", 0) >>
          /\ err' = "none"
          /\ UNCHANGED <<tracker, windows, listeners, handler, mainClosed>>
      ]_vars

\* What holds of the default case: a message with an unknown name whose data
\* has a string form is logged once and changes nothing; one whose data has
\* none raises a TypeError, logs nothing and changes nothing.
UnhandledWarnsWhenPrintable ==
    [][ (/\ op'.kind = "event"
         /\ op'.env.data.defined
         /\ op'.env.data.name \notin SCREEN_SHARE_EVENTS) =>
          /\ IF op'.env.data.printable
             THEN calls' = << Call("console.warn", 0) >> /\ err' = "none"
             ELSE calls' = <<>> /\ err' = "TypeError"
          /\ UNCHANGED <<tracker, windows, listeners, handler, mainClosed>>
      ]_vars

\* C7: once the main window's 'closed' has run, neither the channel listener
\* nor the get-sources handler is registered; 'closed' firing again, or
\* cleanup being called, raises nothing and leaves the registrations as
\* they are.
C7_CleanupDeregisters ==
    /\ [](mainClosed => (listeners = 0 /\ ~handler))
    /\ [][ (op'.kind \in {"main-closed", "cleanup"} /\ mainClosed) =>
             /\ err' = "none"
             /\ listeners' = listeners
             /\ handler' = handler
         ]_vars

\* C7 witness: cleanup has been called after 'closed' had run, with a tracker
\* referenced.
C7_Witness ==
    /\ op.kind = "cleanup"
    /\ op.again
    /\ mainClosed
    /\ tracker # Undefined
    /\ listeners = 0
    /\ ~handler

\* C8: a tracker window is created hidden and unfocused, is never given the
\* focus, and becomes visible only by showInactive called from its own
\* 'ready-to-show' listener.
C8_ShownInactiveByOwnReadyToShow ==
    /\ [](\A w \in WinIds : ~windows[w].focused)
    /\ [][ \A w \in WinIds :
             /\ (windows[w].status = "none" /\ windows'[w].status = "live")
                   => (windows'[w].vis = "hidden" /\ ~windows'[w].focused)
             /\ (windows[w].vis # "visible" /\ windows'[w].vis = "visible")
                   => /\ op'.kind = "ready-to-show"
                      /\ op'.win = w
                      /\ \E i \in CallsTo(calls', "showInactive") : calls'[i].win = w
         ]_vars

\* The part of C8 about the focus and the show operation, whichever window's
\* listener runs: no tracker window is ever focused, each is created hidden,
\* and each becomes visible only by a showInactive call on it made in a
\* 'ready-to-show' listener.
TrackerNeverFocused ==
    /\ [](\A w \in WinIds : ~windows[w].focused)
    /\ [][ \A w \in WinIds :
             /\ (windows[w].status = "none" /\ windows'[w].status = "live")
                   => (windows'[w].vis = "hidden" /\ ~windows'[w].focused)
             /\ (windows[w].vis # "visible" /\ windows'[w].vis = "visible")
                   => /\ op'.kind = "ready-to-show"
                      /\ \E i \in CallsTo(calls', "showInactive") : calls'[i].win = w
         ]_vars

\* C9: the reference is present exactly when there is a live tracker window
\* whose close has not been requested, and then it refers to such a window.
C9_ReferenceIffLiveWindow ==
    /\ (tracker # Undefined) <=> (\E w \in WinIds : Live(w) /\ ~windows[w].closeRequested)
    /\ tracker # Undefined => (Live(tracker) /\ ~windows[tracker].closeRequested)

\* C10: a get-sources request with options o makes exactly one call of the
\* host's getSources, with o, and returns what that call returned: the same
\* sources in the same order, or the same rejection.
C10_GetSourcesForwards ==
    op.kind = "getSources" =>
        /\ Len(calls) = 1
        /\ calls[1].fn = "desktopCapturer.getSources"
        /\ calls[1].arg = op.opts
        /\ reply = calls[1].ret
        /\ err = "none"

\* C10 witness: a request with options 1 returned the host's sources 2, 1 in
\* that order.
C10_Witness ==
    /\ op.kind = "getSources"
    /\ op.opts = 1
    /\ reply.ok
    /\ reply.sources = <<2, 1>>
    /\ Len(calls) = 1

\* C10, the failure case reached: a request returned the host's rejection.
C10_FailureReached ==
    /\ op.kind = "getSources"
    /\ ~reply.ok
    /\ reply.error = 1

\* C11: a tracker window's observable state moves only from not shown to
\* visible (ready signal), from visible to minimized (HIDE_TRACKER) and from
\* any state to absent (CLOSE_TRACKER or a close by another path); once
\* minimized, a tracker is never made visible again.
C11_TrackerTransitions ==
    [][ \A w \in WinIds :
          /\ (Live(w) /\ windows[w].vis = "minimized" /\ windows'[w].status = "live")
                => windows'[w].vis = "minimized"
          /\ (Live(w) /\ windows[w].vis = "visible" /\ windows'[w].status = "live")
                => \/ windows'[w].vis = "visible"
                   \/ windows'[w].vis = "minimized" /\ IsEvent(op', "HIDE_TRACKER")
          /\ (Live(w) /\ windows'[w].status = "destroyed")
                => \/ IsEvent(op', "CLOSE_TRACKER")
                   \/ op'.kind \in {"closed", "external-close"}
      ]_vars

\* C12, in the form a finite run decides: when a tracker window that is live,
\* has no close requested and is not minimized emits 'ready-to-show', it is
\* visible once its listener has run, whatever the listeners of earlier
\* windows did before.
C12_ReadyWindowIsShown ==
    [][ (/\ op'.kind = "ready-to-show"
         /\ Live(op'.win)
         /\ ~windows[op'.win].closeRequested
         /\ windows[op'.win].vis # "minimized")
          => windows'[op'.win].vis = "visible"
      ]_vars

\* C17: showInactive is called only on a window that is not destroyed and that
\* is the window whose 'ready-to-show' listener is running, and that listener
\* never acts on an absent reference.
C17_ShowsOnlyTheReadyWindow ==
    [][ \A i \in CallsTo(calls', "showInactive") :
          /\ op'.kind = "ready-to-show"
          /\ calls'[i].win # Undefined
          /\ calls'[i].win = op'.win
          /\ windows[calls'[i].win].status = "live"
      ]_vars

\* C18: once the main window's 'closed' has been handled no channel message
\* is handled any more: nothing is sent to the main window and no tracker
\* window is created, closed or minimized by the hook.
C18_NoEventAfterMainClosed ==
    [][ mainClosed =>
          /\ op'.kind # "event"
          /\ \A fn \in {"webContents.send", "new BrowserWindow", "close", "minimize"} :
                CallsTo(calls', fn) = {}
      ]_vars

\* C18 witness: the main window has closed while a tracker was referenced, and
\* the host has since delivered that tracker's 'ready-to-show'.
C18_Witness ==
    /\ mainClosed
    /\ listeners = 0
    /\ tracker # Undefined
    /\ Live(tracker)
    /\ op.kind = "ready-to-show"

\* C19: cleanup changes the registrations only: it leaves the reference and the
\* tracker windows as they are and calls nothing on a window, and once the
\* main window has closed a tracker with no close requested stays live until
\* it is closed by another path.
C19_CleanupLeavesTracker ==
    [][ /\ op'.kind \in {"main-closed", "cleanup"} =>
             /\ UNCHANGED <<tracker, windows>>
             /\ \A i \in 1..Len(calls') : calls'[i].win = 0
        /\ \A w \in WinIds :
             (/\ mainClosed
              /\ Live(w)
              /\ ~windows[w].closeRequested
              /\ windows'[w] # windows[w] /\ windows'[w].status # "live")
                => op'.kind = "external-close"
      ]_vars

\* C19 witness: the main window closed while a visible tracker was referenced;
\* the tracker is still referenced, live and visible.
C19_Witness ==
    /\ op.kind = "main-closed"
    /\ ~op.again
    /\ tracker # Undefined
    /\ Live(tracker)
    /\ windows[tracker].vis = "visible"
    /\ ~windows[tracker].closeRequested

\* C16: a tracker window is content-protected exactly when the platform is not
\* Windows or the Windows release supports exclude-from-capture; where it is
\* not supported setContentProtection is never called, and where it is
\* supported it is called on the new window in the step that creates it, so
\* before the window can be shown.
C16_ContentProtection ==
    LET supported == host.platform # "win32" \/ host.release >= Win10Version2004Build
    IN  /\ \A w \in LiveWindows : windows[w].contentProtected = supported
        /\ ~supported => CallsTo(calls, "setContentProtection") = {}
        /\ \A i \in CallsTo(calls, "new BrowserWindow") :
              supported =>
                 /\ \E j \in CallsTo(calls, "setContentProtection") :
                       j > i /\ calls[j].win = calls[i].win
                 /\ CallsTo(calls, "showInactive") = {}
                 /\ windows[calls[i].win].vis = "hidden"

\* C16 witness: on a Windows release that supports it, a protected tracker is
\* visible.
C16_Witness ==
    /\ host.platform = "win32"
    /\ host.release = Win10Version2004Build
    /\ tracker # Undefined
    /\ windows[tracker].vis = "visible"
    /\ windows[tracker].contentProtected

\* C16, the other case reached: on an older Windows release an unprotected
\* tracker is visible.
C16_UnprotectedReached ==
    /\ host.platform = "win32"
    /\ host.release < Win10Version2004Build
    /\ tracker # Undefined
    /\ windows[tracker].vis = "visible"
    /\ ~windows[tracker].contentProtected

\* C15: whatever the origin and the size of the primary display's work area,
\* the tracker is created horizontally centred in the work area
\* (2x + W = 2x0 + w) with its bottom edge the margin above the bottom edge of
\* the work area (y + H = y0 + h - 5).
C15_TrackerPlacement ==
    \A i \in CallsTo(calls, "new BrowserWindow") :
       \A j \in CallsTo(calls, "screen.getPrimaryDisplay") :
          LET workArea == calls[j].area
              pos == calls[i].pos
          IN  /\ pos.x2 + TrackerWidth = 2 * workArea.x + workArea.width
              /\ pos.y + TrackerHeight
                    = workArea.y + workArea.height - TrackerMargin

\* What the code does hold to: the same placement relative to the size of the
\* work area alone, as if its origin were (0, 0).
PlacementIgnoresOrigin ==
    \A i \in CallsTo(calls, "new BrowserWindow") :
       /\ CallsTo(calls, "screen.getPrimaryDisplay") # {}
       /\ \A j \in CallsTo(calls, "screen.getPrimaryDisplay") :
             /\ calls[i].pos.x2 + TrackerWidth = calls[j].area.width
             /\ calls[i].pos.y + TrackerHeight
                   = calls[j].area.height - TrackerMargin

\* C13: every hook is constructed without error, and from the end of its
\* construction until its own main window closes its channel listener and its
\* get-sources handler are registered, whatever other hooks are constructed
\* or cleaned up meanwhile.
C13_HooksStayRegistered ==
    \A c \in HookIds :
       /\ hooks[c].status # "threw"
       /\ hooks[c].status = "constructed" =>
             (hooks[c].listeners > 0 /\ ipcHandler = c)

\* What holds of the listeners alone: a hook's own channel listener stays
\* registered until its own cleanup runs.
OwnListenerStaysRegistered ==
    \A c \in HookIds : hooks[c].status \in {"constructed", "threw"} => hooks[c].listeners = 1

\* The states where cleanup of a hook was called with its main window open:
\* its listener is off the channel and no hook's handler is on it.
CleanedBeforeClosedReached ==
    \E c \in HookIds : hooks[c].status = "cleaned" /\ hooks[c].listeners = 0 /\ ipcHandler = 0

\* C14: the constructor issues the permission reset command, once and with the
\* bundle id given, exactly when a bundle id is given, the platform is macOS
\* and the screen capture status is 'denied'.
C14_ResetOnlyWhenDenied ==
    op.kind = "new ScreenShareMainHook" =>
       LET resets == CallsTo(calls, "exec tccutil reset ScreenCapture")
       IN  IF op.opts # NoBundleId /\ host.platform = "darwin" /\ op.status = "denied"
           THEN Cardinality(resets) = 1 /\ \A i \in resets : calls[i].arg = op.opts
           ELSE resets = {}

\* What the code does hold to: the reset is issued exactly when a bundle id is
\* given, the platform is macOS and the status is anything but 'granted'.
ResetUnlessGranted ==
    op.kind = "new ScreenShareMainHook" =>
       LET resets == CallsTo(calls, "exec tccutil reset ScreenCapture")
       IN  IF op.opts # NoBundleId /\ host.platform = "darwin" /\ op.status # "granted"
           THEN Cardinality(resets) = 1 /\ \A i \in resets : calls[i].arg = op.opts
           ELSE resets = {}

====
